---- MODULE Spec2Model ----
(***************************************************************************)
(* Model of the active-volume engine of med3web,                           *)
(* src/lib/scripts/actvolume/actvol.js (class ActiveVolume).               *)
(*                                                                         *)
(* Numbers.  JavaScript numbers that can be fractional are modelled as     *)
(* exact rationals, records [num, den] with den > 0; den = 0 stands for    *)
(* NaN (the result of 0/0 or of arithmetic on undefined).  Math.exp is a   *)
(* fixed-point Taylor series, x ** 0.3 a fixed-point integer root.         *)
(* Arrays are sequences: the JavaScript index i is the sequence index i+1. *)
(* A nullable array field is a record [isNull, data].                      *)
(***************************************************************************)
EXTENDS Integers, Sequences, FiniteSets, TLC

VARIABLES
  av,         \* the ActiveVolume instance (all its m_ fields)
  geo,        \* the GeoRender mesh handed to updateGeo
  volTexDst,  \* the caller's destination volume
  call,       \* the last call that returned (create, updateGeo, skullRemove) and its result
  sr          \* the frame of the skullRemove call in progress

vars == <<av, geo, volTexDst, call, sr>>

(***************************************************************************)
(* Program constants                                                       *)
(***************************************************************************)
ACT_VOL_NUM_SMOOTH_STAGES == 18
AV_NUM_COLORS == 256

AV_STATE_NA == -1
AV_STATE_NOT_STARTED == 0
AV_STATE_PREPARE_GAUSS == 1
AV_STATE_PREPARE_UNIFORMITY == 2
AV_STATE_UPDATE_GEO == 3
AV_STATE_FINISHED == 4

AV_METHOD_NORMALS == 1
AV_METHOD_UNIFORMITY == 2
AV_METHOD_COLOR_KOEFS == 4
AV_METHOD_ALL == 65535

TOO_MUCH_SIZE == 8192
COORDS_IN_VERTEX == 4
GAUSS_RAD == 2
\* GAUSS_SIGMA = 1.8, in tenths
GAUSS_SIGMA10 == 18

(***************************************************************************)
(* Bounds of the model                                                     *)
(***************************************************************************)
\* updateGeo is explored until m_geoStage reaches this value
MaxGeoStage == 2
\* number of vertices of the seed mesh
MeshVertices == 2

(***************************************************************************)
(* Numbers                                                                 *)
(***************************************************************************)
R(n, d) == [num |-> n, den |-> d]
NaN == R(0, 0)
IsNaN(r) == r.den = 0
FromInt(n) == R(n, 1)
\* Math.floor of a finite rational
Floor(r) == r.num \div r.den
IsInteger(r) == r.den # 0 /\ r.num % r.den = 0
\* a < b in JavaScript: false when either side is NaN
Less(a, b) ==
  /\ a.den # 0 /\ b.den # 0
  /\ IF a.den = b.den THEN a.num < b.num ELSE a.num * b.den < b.num * a.den
\* a <= b for two rationals of one denominator: false when it is NaN
LessEq(a, b) == a.den # 0 /\ b.den # 0 /\ a.num <= b.num
\* Math.floor: NaN for NaN (and for undefined)
FloorJS(r) == IF r.den = 0 THEN r ELSE [num |-> r.num \div r.den, den |-> 1]
Max(a, b) == IF a > b THEN a ELSE b
Min(a, b) == IF a < b THEN a ELSE b
Abs(a) == IF a < 0 THEN -a ELSE a

\* the sum of s[lo..hi], by halves
RECURSIVE SumRange(_, _, _)
SumRange(s, lo, hi) ==
  IF lo > hi THEN 0
  ELSE IF lo = hi THEN s[lo]
  ELSE LET mid == (lo + hi) \div 2
       IN SumRange(s, lo, mid) + SumRange(s, mid + 1, hi)

SeqSum(s) == SumRange(s, 1, Len(s))

\* (method & bit) !== 0 for a single-bit mask
HasBit(method, bit) == (method \div bit) % 2 = 1

(***************************************************************************)
(* Nullable arrays                                                         *)
(***************************************************************************)
\* the array f with its elements computed once (f itself, as a tuple)
Tuple(f) == <<>> \o f
Null == [isNull |-> TRUE, data |-> <<>>]
Arr(s) == [isNull |-> FALSE, data |-> s]
\* new Float32Array(n) / new Int32Array(n): n zeros
Zeros(n) == [i \in 1..n |-> 0]

(***************************************************************************)
(* The caller's volumes.  A source volume is a flat array of xDim*yDim*zDim *)
(* intensities in 0..255, index x + y*xDim + z*xDim*yDim.                  *)
(***************************************************************************)
VolKinds == {"flat", "valley", "plateau"}

SrcValue(kind, xDim, off) ==
  CASE kind = "flat" -> 100
    [] kind = "valley" -> IF off % 8 < 3 THEN 20 ELSE IF off % 8 = 3 THEN 21 ELSE 22
    [] OTHER -> IF 2 * (off % xDim) < xDim THEN 10 ELSE 200

SrcVolume(kind, xDim, yDim, zDim) ==
  [i \in 1..(xDim * yDim * zDim) |-> SrcValue(kind, xDim, i - 1)]

(***************************************************************************)
(* constructor                                                             *)
(***************************************************************************)
NewActiveVolume ==
  [ m_state |-> AV_STATE_NA,
    m_pixelsSrc |-> Null,
    m_xDim |-> 0, m_yDim |-> 0, m_zDim |-> 0,
    m_imageGauss |-> Null,
    m_imageUniformity |-> Null,
    m_verticesNew |-> Null,
    m_imageSrc |-> Null,
    m_imageGrad |-> Null,
    m_gaussMatrix |-> Null,
    m_gaussStage |-> -1,
    m_uniformityStage |-> -1,
    m_geoStage |-> -1,
    m_histogram |-> Zeros(AV_NUM_COLORS),
    m_colorProbability |-> [i \in 1..AV_NUM_COLORS |-> FromInt(0)],
    m_colorKoefs |-> [i \in 1..AV_NUM_COLORS |-> FromInt(0)],
    m_indexMinColor |-> -1 ]

(***************************************************************************)
(* create(xDim, yDim, zDim, volTexSrc): no validation, always returns 1    *)
(***************************************************************************)
\* create with a uniformity buffer of one slice only
createOneSlice(e, xDim, yDim, zDim, volTexSrc) ==
  [ av |-> [e EXCEPT !.m_state = AV_STATE_NOT_STARTED,
                     !.m_pixelsSrc = Arr(volTexSrc),
                     !.m_xDim = xDim, !.m_yDim = yDim, !.m_zDim = zDim,
                     !.m_imageGauss = Arr([i \in 1..(xDim * yDim * zDim) |-> FromInt(0)]),
                     !.m_imageUniformity = Arr(Zeros(xDim * yDim)),
                     !.m_verticesNew = Null],
    ret |-> 1 ]

create(e, xDim, yDim, zDim, volTexSrc) ==
  [ av |-> [e EXCEPT !.m_state = AV_STATE_NOT_STARTED,
                     !.m_pixelsSrc = Arr(volTexSrc),
                     !.m_xDim = xDim, !.m_yDim = yDim, !.m_zDim = zDim,
                     !.m_imageGauss = Arr([i \in 1..(xDim * yDim * zDim) |-> FromInt(0)]),
                     !.m_imageUniformity = Arr(Zeros(xDim * yDim * zDim)),
                     !.m_verticesNew = Null],
    ret |-> 1 ]

(***************************************************************************)
(* startImageSmooth / stopImageSmooth                                      *)
(***************************************************************************)
startImageSmooth(e) ==
  LET numPixels == e.m_xDim * e.m_yDim * e.m_zDim
  IN [e EXCEPT !.m_imageGauss = Arr([i \in 1..numPixels |-> FromInt(0)]),
               !.m_imageUniformity = Arr(Zeros(numPixels)),
               !.m_imageSrc = Arr([i \in 1..numPixels |-> e.m_pixelsSrc.data[i]]),
               !.m_imageGrad = Arr(Zeros(numPixels))]

\* a release that drops the smoothed image with the scratch buffers
stopImageSmoothReleasesGauss(e) ==
  [e EXCEPT !.m_imageGrad = Null, !.m_imageSrc = Null, !.m_imageGauss = Null]

stopImageSmooth(e) ==
  [e EXCEPT !.m_imageGrad = Null, !.m_imageSrc = Null]

(***************************************************************************)
(* Math.exp(-tn/td) in fixed point: the value times EXP_ONE, by the Taylor *)
(* series to the fourth order (the arguments used here are below 1/3).     *)
(***************************************************************************)
EXP_ONE == 10000

ExpNeg(tn, td) ==
  LET t  == (tn * EXP_ONE) \div td
      t2 == (t * t) \div (2 * EXP_ONE)
      t3 == (t2 * t) \div (3 * EXP_ONE)
      t4 == (t3 * t) \div (4 * EXP_ONE)
  IN EXP_ONE - t + t2 - t3 + t4

(***************************************************************************)
(* applyPartGaussSmooth(zStart, zEnd, rad, sigma)                          *)
(***************************************************************************)
\* weight of the kernel cell j (0-based, dz outermost, dx innermost) before
\* normalisation: exp(-dist2 * koef), koef = 1/(3 sigma^2), dist2 over
\* offsets divided by rad
GaussWeight(j, rad, sigma10) ==
  LET dia == 1 + 2 * rad
      dx == (j % dia) - rad
      dy == ((j \div dia) % dia) - rad
      dz == (j \div (dia * dia)) - rad
      d2 == dx * dx + dy * dy + dz * dz
  IN ExpNeg(d2 * 100, 3 * rad * rad * sigma10 * sigma10)

\* the kernel after "normalize weights": entry j is weight_j / wSum.  With
\* rad = 0 the offsets are 0 / 0, with sigma = 0 koef is Infinity and the
\* centre weight exp(-(0 * Infinity)): a NaN weight makes wSum, and with it
\* every entry, NaN.
BuildGaussMatrix(rad, sigma10) ==
  LET dia == 1 + 2 * rad
  IN IF rad = 0 \/ sigma10 = 0
     THEN Tuple([j \in 1..(dia * dia * dia) |-> NaN])
     ELSE LET w == Tuple([j \in 1..(dia * dia * dia) |-> GaussWeight(j - 1, rad, sigma10)])
              wSum == SeqSum(w)
          IN Tuple([j \in 1..(dia * dia * dia) |-> R(w[j], wSum)])

\* the weighted sum of the source samples under the kernel footprint at (cx, cy, cz)
GaussConv(e, matrix, rad, cx, cy, cz) ==
  LET dia == 1 + 2 * rad
      term(j) ==
        LET x == cx + (j % dia) - rad
            y == cy + ((j \div dia) % dia) - rad
            z == cz + (j \div (dia * dia)) - rad
        IN e.m_pixelsSrc.data[1 + x + y * e.m_xDim + z * e.m_xDim * e.m_yDim]
             * matrix[j + 1].num
  IN R(SeqSum([j \in 1..(dia * dia * dia) |-> term(j - 1)]), matrix[1].den)

\* if (zStart === 0): the call builds the kernel and copies the source
BuildsKernel(zStart) == zStart = 0

\* the voxel at offset off is inside the three loops (cz, cy, cx) of a call
\* on [zStart, zEnd)
InBand(e, off, zStart, zEnd, rad) ==
  LET zs == IF zStart > rad THEN zStart ELSE rad
      ze == IF zEnd < e.m_zDim - rad THEN zEnd ELSE e.m_zDim - rad
      cx == off % e.m_xDim
      cy == (off \div e.m_xDim) % e.m_yDim
      cz == off \div (e.m_xDim * e.m_yDim)
  IN /\ zs <= cz /\ cz < ze
     /\ rad <= cy /\ cy < e.m_yDim - rad
     /\ rad <= cx /\ cx < e.m_xDim - rad

\* the offsets of the voxels a call on [zStart, zEnd) overwrites
ConvolvedVoxels(e, zStart, zEnd, rad) ==
  {off \in 0..(e.m_xDim * e.m_yDim * e.m_zDim - 1) : InBand(e, off, zStart, zEnd, rad)}

\* a smoothing call that copies the source into m_imageGauss whatever zStart is
applyPartGaussSmoothAlwaysCopies(e, zStart, zEnd, rad, sigma10) ==
  LET matrix == IF BuildsKernel(zStart) THEN BuildGaussMatrix(rad, sigma10)
                                        ELSE e.m_gaussMatrix.data
      smoothed(off) ==
        IF InBand(e, off, zStart, zEnd, rad)
        THEN GaussConv(e, matrix, rad, off % e.m_xDim, (off \div e.m_xDim) % e.m_yDim,
                       off \div (e.m_xDim * e.m_yDim))
        ELSE FromInt(e.m_imageSrc.data[off + 1])
  IN [e EXCEPT !.m_gaussMatrix = Arr(matrix),
               !.m_imageGauss = Arr([i \in 1..(e.m_xDim * e.m_yDim * e.m_zDim) |->
                                       smoothed(i - 1)])]

applyPartGaussSmooth(e, zStart, zEnd, rad, sigma10) ==
  LET first == BuildsKernel(zStart)
      matrix == IF first THEN BuildGaussMatrix(rad, sigma10) ELSE e.m_gaussMatrix.data
      numPixels == e.m_xDim * e.m_yDim * e.m_zDim
      base == IF first
              THEN [i \in 1..numPixels |-> FromInt(e.m_imageSrc.data[i])]
              ELSE e.m_imageGauss.data
      smoothed(off) ==
        IF InBand(e, off, zStart, zEnd, rad)
        THEN GaussConv(e, matrix, rad, off % e.m_xDim, (off \div e.m_xDim) % e.m_yDim,
                       off \div (e.m_xDim * e.m_yDim))
        ELSE base[off + 1]
  IN [e EXCEPT !.m_gaussMatrix = Arr(matrix),
               !.m_imageGauss = Arr([i \in 1..numPixels |-> smoothed(i - 1)])]

(***************************************************************************)
(* smoothStep(minRange, maxRange, arg)                                     *)
(***************************************************************************)
\* a smoothStep without the clamp of t to [0, 1]
smoothStepUnclamped(minRange, maxRange, arg) ==
  LET a == arg - minRange
      b == maxRange - minRange
  IN IF b = 0 THEN R(0, 1) ELSE R(a * a * (3 * b - 2 * a), b * b * b)

smoothStep(minRange, maxRange, arg) ==
  LET a == arg - minRange
      b == maxRange - minRange
      \* t = a / b, then clamped to [0, 1]; a NaN or -Infinity quotient
      \* clamps to 0 and +Infinity to 1
      t == IF b = 0 THEN (IF a > 0 THEN R(1, 1) ELSE R(0, 1))
           ELSE LET n == IF b > 0 THEN a ELSE -a
                    d == Abs(b)
                IN R(Min(Max(n, 0), d), d)
  IN R(t.num * t.num * (3 * t.den - 2 * t.num), t.den * t.den * t.den)

(***************************************************************************)
(* smoothArray(values, numValues, gaussRad, gaussSigma): values are         *)
(* rationals with one common denominator; the weight is 1/exp(t*t*mult),   *)
(* t = di/gaussRad, mult = 1/sigma^2; indices clamp at the ends            *)
(***************************************************************************)
smoothArray(values, numValues, gaussRad, gaussSigma10) ==
  LET weight(di) == ExpNeg(di * di * 100, gaussRad * gaussRad * gaussSigma10 * gaussSigma10)
      taps == 1..(2 * gaussRad + 1)
      \* the weight of each di in -gaussRad..gaussRad, as a sequence
      ws == Tuple([k \in taps |-> weight(k - 1 - gaussRad)])
      src == Tuple(values)
      sumWeight == SeqSum(ws)
      clampInd(i) == IF i >= 0 THEN (IF i < numValues THEN i ELSE numValues - 1) ELSE 0
      dst(ci) ==
        R(SeqSum([k \in taps |-> src[clampInd(ci + k - 1 - gaussRad) + 1].num * ws[k]]),
          src[1].den * sumWeight)
  IN Tuple([i \in 1..AV_NUM_COLORS |-> IF i <= numValues THEN dst(i - 1) ELSE src[i]])

(***************************************************************************)
(* delta ** 0.3 in fixed point (the value times POW_ONE), by integer roots: *)
(* delta^0.3 = ((delta^3)^(1/2))^(1/5)                                     *)
(***************************************************************************)
POW_ONE == 8

RECURSIVE IntPower(_, _)
IntPower(b, k) == IF k = 0 THEN 1 ELSE b * IntPower(b, k - 1)

\* the largest r in lo..hi with r^k <= n (lo^k <= n is given)
RECURSIVE IntRoot(_, _, _, _)
IntRoot(lo, hi, n, k) ==
  IF lo >= hi THEN lo
  ELSE LET mid == (lo + hi + 1) \div 2
       IN IF IntPower(mid, k) <= n THEN IntRoot(mid, hi, n, k)
                                   ELSE IntRoot(lo, mid - 1, n, k)

Pow03(delta) ==
  LET a == IntRoot(0, 46340, delta * delta * delta * POW_ONE * POW_ONE, 2)
  IN IntRoot(0, 73, a * IntPower(POW_ONE, 4), 5)

(***************************************************************************)
(* getHistogram(): coordinates of the scan loops can be fractional         *)
(* (zDim / 2 for an odd zDim, xDim * 40 / 512); they are kept as integers  *)
(* in units of 1/UNIT.                                                     *)
(***************************************************************************)
UNIT == 1024
SCAN_RANGE == 4
NUM_20 == 20
NUM_526 == 20
VAL_BORDER_ADD == 40
NUM_512 == 512
MAGIC_PART_HIST == 64
NUM_COLS_HALF == 128
HIST_GAUSS_RAD == 12
\* GAUSS_SIGMA = 2.6 of the probability smoothing, in tenths
HIST_GAUSS_SIGMA10 == 26

\* number of iterations of for (v = lo; v < hi; v++)
LoopCount(lo, hi) == IF hi > lo THEN (hi - lo + UNIT - 1) \div UNIT ELSE 0

\* this.m_imageGauss[off]: undefined (NaN in arithmetic) unless off is an
\* integer index inside the array
ReadGauss(e, offU) ==
  IF offU % UNIT = 0 /\ offU >= 0 /\ offU \div UNIT < Len(e.m_imageGauss.data)
  THEN e.m_imageGauss.data[offU \div UNIT + 1]
  ELSE NaN

\* typedArray[val]++ changes an element only for an integer val in 0..255
ValidBin(val) == IsInteger(val) /\ Floor(val) >= 0 /\ Floor(val) < AV_NUM_COLORS

\* histogram of a sequence of bin values (valid ones counted)
HistogramOf(bins) ==
  LET valid == {k \in DOMAIN bins : ValidBin(bins[k])}
      occ == {Floor(bins[k]) : k \in valid}
  IN Tuple([i \in 1..AV_NUM_COLORS |->
        IF (i - 1) \in occ THEN Cardinality({k \in valid : Floor(bins[k]) = i - 1}) ELSE 0])

\* first pass: val = Math.floor(imageGauss[i]); val = (val < 255) ? val : 255
FullBins(e) ==
  LET MAX_COLOR == AV_NUM_COLORS - 1
      bin(v) == IF IsNaN(v) THEN FromInt(MAX_COLOR)
                ELSE IF Floor(v) < MAX_COLOR THEN FromInt(Floor(v)) ELSE FromInt(MAX_COLOR)
  IN Tuple([i \in 1..(e.m_xDim * e.m_yDim * e.m_zDim) |-> bin(e.m_imageGauss.data[i])])

FullHistogram(e) == HistogramOf(FullBins(e))

\* m_colorProbability is a Float32Array: the quotient h / n is stored as the
\* nearest single-precision number (ties to even).  F32Quot(h, n) is that
\* number for 0 <= h <= n < 2^27, as [man, exp]: its value is man / 2^exp
\* with F32_HIDDEN <= man < 2 * F32_HIDDEN, and [man |-> 0, exp |-> 0] is 0.
F32_HIDDEN == 8388608

\* the binary digits of h / n, until q = floor(h * 2^e / n) has 24 of them;
\* r is the remainder h * 2^e - q * n
RECURSIVE F32Digits(_, _, _, _)
F32Digits(q, r, e, n) ==
  IF q >= F32_HIDDEN THEN [q |-> q, r |-> r, e |-> e]
  ELSE F32Digits(2 * q + (IF 2 * r >= n THEN 1 ELSE 0), (2 * r) % n, e + 1, n)

F32Round(d, n) ==
  LET up == 2 * d.r > n \/ (2 * d.r = n /\ d.q % 2 = 1)
      m == IF up THEN d.q + 1 ELSE d.q
  IN IF m = 2 * F32_HIDDEN THEN [man |-> F32_HIDDEN, exp |-> d.e - 1]
                           ELSE [man |-> m, exp |-> d.e]

F32Quot(h, n) ==
  IF h = 0 THEN [man |-> 0, exp |-> 0] ELSE F32Round(F32Digits(h \div n, h % n, 0, n), n)

F32Less(a, b) ==
  IF a.man = 0 \/ b.man = 0 THEN a.man < b.man
  ELSE a.exp > b.exp \/ (a.exp = b.exp /\ a.man < b.man)

\* a < b for two stored probabilities (false when either is NaN)
StoredLess(a, b) ==
  a.den # 0 /\ b.den # 0 /\ F32Less(F32Quot(a.num, a.den), F32Quot(b.num, b.den))

\* the search without its break: the last local minimum among the bins 1..63
IndexMinColorNoBreak(prob) ==
  LET isCurMin(i) == StoredLess(prob[i + 1], prob[i + 2]) /\ StoredLess(prob[i + 1], prob[i])
      mins == {i \in 1..(MAGIC_PART_HIST - 1) : isCurMin(i)}
  IN IF mins = {} THEN 0 ELSE CHOOSE i \in mins : \A k \in mins : i >= k

\* first local minimum of the stored probabilities among the bins 1..63, else 0
IndexMinColor(prob) ==
  LET isCurMin(i) == StoredLess(prob[i + 1], prob[i + 2]) /\ StoredLess(prob[i + 1], prob[i])
      mins == {i \in 1..(MAGIC_PART_HIST - 1) : isCurMin(i)}
  IN IF mins = {} THEN 0 ELSE CHOOSE i \in mins : \A k \in mins : i <= k

\* colorKoefs[i] = 1 - 1 / (1 + |i - indexMinColor| ** 0.3)
\* the coefficient without the leading "1.0 -": 1 / (1 + |i - indexMinColor| ** 0.3)
ColorKoefInverted(i, indexMinColor) ==
  R(POW_ONE, POW_ONE + Pow03(Abs(i - indexMinColor)))

ColorKoef(i, indexMinColor) ==
  LET delta == Abs(i - indexMinColor)
      inv == R(POW_ONE, POW_ONE + Pow03(delta))
  IN R(inv.den - inv.num, inv.den)

ColorKoefs(indexMinColor) ==
  [i \in 1..AV_NUM_COLORS |-> ColorKoef(i - 1, indexMinColor)]

\* the least and the greatest element of a set of integers
SetMin(S) == CHOOSE x \in S : \A o \in S : x <= o
SetMax(S) == CHOOSE x \in S : \A o \in S : x >= o

\* The scan window "near central line": the (y, z) pairs of its rows, z
\* outermost, in units of 1/UNIT.  Each of the two loops runs from dim/2 - 4
\* to dim/2 + 4 in steps of 1, that is 2 * SCAN_RANGE times.
ScanRows(e) ==
  Tuple([k \in 1..(4 * SCAN_RANGE * SCAN_RANGE) |->
          [y |-> (e.m_yDim * UNIT) \div 2 - SCAN_RANGE * UNIT
                   + ((k - 1) % (2 * SCAN_RANGE)) * UNIT,
           z |-> (e.m_zDim * UNIT) \div 2 - SCAN_RANGE * UNIT
                   + ((k - 1) \div (2 * SCAN_RANGE)) * UNIT]])

\* off = x + yOff + zOff, in units of 1/UNIT
ScanOff(e, x, row) == x + row.y * e.m_xDim + row.z * e.m_xDim * e.m_yDim

\* xMin = xDim * (NUM_20 / NUM_526), xMax = xDim - xMin
ScanXMin(e) == (e.m_xDim * NUM_20 * UNIT) \div NUM_526
ScanXMax(e) == e.m_xDim * UNIT - ScanXMin(e)

\* the common denominator of the smoothed image
GaussDen(e) == IF e.m_gaussMatrix.isNull THEN 1 ELSE e.m_gaussMatrix.data[1].den

\* the voxel read at step j of a row whose two x loops read nL voxels from
\* xL on and then the others from xR on
RowSample(e, row, j, xL, nL, xR) ==
  IF j < nL THEN ReadGauss(e, ScanOff(e, xL + j * UNIT, row))
            ELSE ReadGauss(e, ScanOff(e, xR + (j - nL) * UNIT, row))

\* the voxels read by the two x loops over all rows, in loop order
RowSamples(e, rows, xL, nL, xR, nR) ==
  Tuple([k \in 1..(Len(rows) * (nL + nR)) |->
          RowSample(e, rows[(k - 1) \div (nL + nR) + 1], (k - 1) % (nL + nR), xL, nL, xR)])

\* colBlack = (sum of the samples) / numPixelsBorder, kept as (q + r/d) / n;
\* nan when a sample is undefined or no sample is taken
ColBlackOf(samples, d) ==
  IF Len(samples) = 0 \/ \E k \in DOMAIN samples : IsNaN(samples[k])
  THEN [nan |-> TRUE, q |-> 0, r |-> 0, d |-> d, n |-> Len(samples)]
  ELSE [nan |-> FALSE,
        q |-> SeqSum([k \in DOMAIN samples |-> Floor(samples[k])]),
        r |-> SeqSum([k \in DOMAIN samples |->
                        (samples[k].num % samples[k].den) * (d \div samples[k].den)]),
        d |-> d, n |-> Len(samples)]

\* "get black color on image border"
ColBlack(e) ==
  ColBlackOf(RowSamples(e, ScanRows(e), 0, LoopCount(0, ScanXMin(e)),
                        ScanXMax(e), LoopCount(ScanXMax(e), e.m_xDim * UNIT)),
             GaussDen(e))

\* this.m_imageGauss[off] > colBlack + VAL_BORDER_ADD
AboveBlack(v, colBlack) ==
  /\ ~IsNaN(v) /\ ~colBlack.nan
  /\ Floor(v) * colBlack.n - colBlack.q - VAL_BORDER_ADD * colBlack.n
       > (colBlack.r - (v.num % v.den) * (colBlack.d \div v.den) * colBlack.n) \div colBlack.d

\* the number of steps a border scan of n steps makes before its break
BorderSteps(hits, n) == IF hits = {} THEN n ELSE SetMin(hits)

\* xBorder of a row after for (x = xMin; x < w2; x++)
BorderLeft(e, row, colBlack) ==
  ScanXMin(e) + UNIT * BorderSteps(
    {k \in 0..(LoopCount(ScanXMin(e), (e.m_xDim * UNIT) \div 2) - 1) :
       AboveBlack(ReadGauss(e, ScanOff(e, ScanXMin(e) + k * UNIT, row)), colBlack)},
    LoopCount(ScanXMin(e), (e.m_xDim * UNIT) \div 2))

\* xBorder of a row after for (x = xMax; x > w2; x--)
BorderRight(e, row, colBlack) ==
  ScanXMax(e) - UNIT * BorderSteps(
    {k \in 0..(LoopCount((e.m_xDim * UNIT) \div 2, ScanXMax(e)) - 1) :
       AboveBlack(ReadGauss(e, ScanOff(e, ScanXMax(e) - k * UNIT, row)), colBlack)},
    LoopCount((e.m_xDim * UNIT) \div 2, ScanXMax(e)))

\* "Find where border is started (Left and Right)": xLeftMin and xRightMax
ScanBordersOf(e, rows, colBlack) ==
  [xLeftMin |-> SetMin({BorderLeft(e, rows[k], colBlack) : k \in DOMAIN rows}
                         \cup {e.m_xDim * UNIT}),
   xRightMax |-> SetMax({BorderRight(e, rows[k], colBlack) : k \in DOMAIN rows} \cup {0})]

ScanBorders(e) == ScanBordersOf(e, ScanRows(e), ColBlack(e))

\* RANGE_SCAN = xDim * VAL_BORDER_ADD / NUM_512
RangeScan(e) == (e.m_xDim * VAL_BORDER_ADD * UNIT) \div NUM_512

\* second pass: the values used as histogram indices, in loop order; the
\* left band uses the voxel as read, the right band its Math.floor
BandBinsOf(samples, nL, nR) ==
  Tuple([k \in DOMAIN samples |->
          IF (k - 1) % (nL + nR) < nL THEN samples[k] ELSE FloorJS(samples[k])])

BandBinsBetween(e, xLeftMin, xRightMax) ==
  BandBinsOf(RowSamples(e, ScanRows(e),
                        xLeftMin, LoopCount(xLeftMin, xLeftMin + RangeScan(e)),
                        xRightMax - RangeScan(e),
                        LoopCount(xRightMax - RangeScan(e), xRightMax)),
             LoopCount(xLeftMin, xLeftMin + RangeScan(e)),
             LoopCount(xRightMax - RangeScan(e), xRightMax))

BandBinsIn(e, b) == BandBinsBetween(e, b.xLeftMin, b.xRightMax)

BandBins(e) == BandBinsIn(e, ScanBorders(e))

\* the reads of m_imageGauss made by the three scan loops of getHistogram
\* (border average, border scan, band histogram): the x and the offset of
\* each, in units of 1/UNIT
ScanReads(e) ==
  LET rows == ScanRows(e)
      colBlack == ColBlack(e)
      b == ScanBorders(e)
      w2 == (e.m_xDim * UNIT) \div 2
      up(lo, n) == {lo + j * UNIT : j \in 0..(n - 1)}
      down(hi, n) == {hi - j * UNIT : j \in 0..(n - 1)}
      average == up(0, LoopCount(0, ScanXMin(e)))
                   \cup up(ScanXMax(e), LoopCount(ScanXMax(e), e.m_xDim * UNIT))
      scan(row) ==
        {x \in up(ScanXMin(e), LoopCount(ScanXMin(e), w2)) : x <= BorderLeft(e, row, colBlack)}
          \cup {x \in down(ScanXMax(e), LoopCount(w2, ScanXMax(e))) :
                  x >= BorderRight(e, row, colBlack)}
      band == up(b.xLeftMin, LoopCount(b.xLeftMin, b.xLeftMin + RangeScan(e)))
                \cup up(b.xRightMax - RangeScan(e),
                        LoopCount(b.xRightMax - RangeScan(e), b.xRightMax))
  IN UNION {{[x |-> x, off |-> ScanOff(e, x, rows[k])] :
               x \in average \cup scan(rows[k]) \cup band} : k \in DOMAIN rows}

\* m_colorProbability[i] = h / n for each of the 256 counts
Probabilities(h, n) == Tuple([i \in 1..AV_NUM_COLORS |-> R(h[i], n)])

\* the bounds of the classification curve, after the outward expansion by 2
BlackBounds(prob) ==
  LET nums == {prob[i].num : i \in {i \in 1..AV_NUM_COLORS : ~IsNaN(prob[i])}} \cup {0}
      maxProb == SetMax(nums)
      \* prob[i] >= maxProb / 3
      atBarrier(i) == ~IsNaN(prob[i + 1]) /\ 3 * prob[i + 1].num >= maxProb
      firstOf(S, default) == IF S = {} THEN default ELSE SetMin(S)
      l == firstOf({i \in 0..(NUM_COLS_HALF - 1) : atBarrier(i)}, NUM_COLS_HALF)
      isLocMin(i) == LessEq(prob[i + 1], prob[i]) /\ LessEq(prob[i + 1], prob[i + 2])
      r == firstOf({i \in (l + 1)..(NUM_COLS_HALF - 1) : isLocMin(i)}, Max(l + 1, NUM_COLS_HALF))
  IN [indBlackL |-> l - 2, indBlackR |-> r + 2]

\* m_colorProbability[i] = smoothStep(indBlackL, indBlackR, i)
SmoothStepCurve(b) ==
  [i \in 1..AV_NUM_COLORS |-> smoothStep(b.indBlackL, b.indBlackR, i - 1)]

\* what a histogram pass counted (the sum of its 256 counts) and sampled
\* (the divisor of its probabilities)
HistPass(hist, sampled) == [sum |-> SeqSum(hist), sampled |-> sampled]

\* getHistogram once both histograms are taken: the instance after the call,
\* and the two passes
getHistogramOf(e, full, hist, numPixHist) ==
  [av |-> [e EXCEPT
             !.m_histogram = hist,
             !.m_indexMinColor =
                IndexMinColor(Probabilities(full, e.m_xDim * e.m_yDim * e.m_zDim)),
             !.m_colorKoefs =
                ColorKoefs(IndexMinColor(Probabilities(full, e.m_xDim * e.m_yDim * e.m_zDim))),
             !.m_colorProbability =
                SmoothStepCurve(BlackBounds(
                  smoothArray(Probabilities(hist, numPixHist),
                              AV_NUM_COLORS, HIST_GAUSS_RAD, HIST_GAUSS_SIGMA10)))],
   passes |-> <<HistPass(full, e.m_xDim * e.m_yDim * e.m_zDim), HistPass(hist, numPixHist)>>]

getHistogramIn(e, full, bins) == getHistogramOf(e, full, HistogramOf(bins), Len(bins))

getHistogram(e) == getHistogramIn(e, FullHistogram(e), BandBins(e))

(***************************************************************************)
(* The mesh (GeoRender, TetrahedronGenerator: outside this file).  A mesh  *)
(* is its vertex array (4 numbers per vertex, kept in quarters) and        *)
(* whether its normals have been computed.                                 *)
(***************************************************************************)
SeedGeo ==
  [ numVertices |-> MeshVertices,
    vertices |-> [i \in 1..(COORDS_IN_VERTEX * MeshVertices) |->
                    IF (i - 1) % COORDS_IN_VERTEX = 3 THEN 0
                    ELSE 2 * (((i - 1) % 3) - 1)],
    normals |-> FALSE ]

\* geo.createNormalsForGeometry() returning ok
createNormalsForGeometry(g, ok) == IF ok = 1 THEN [g EXCEPT !.normals = TRUE] ELSE g

(***************************************************************************)
(* updateGeoNormalsUniformityColors(geo, normalSpeed): logs, changes       *)
(* nothing and returns undefined, which updateGeo reads as "not finished"  *)
(***************************************************************************)
\* a relaxation routine that reports completion at once
updateGeoNormalsUniformityColorsDone(g) == TRUE

updateGeoNormalsUniformityColors(g) == FALSE

(***************************************************************************)
(* updateGeo(geo, method), one block per state; the blocks are plain ifs,  *)
(* so a block that changes m_state is followed by the next state's block   *)
(* in the same call.                                                       *)
(***************************************************************************)
\* The frame of a call: the instance and the mesh, the value returned (ret,
\* once returned is TRUE; raised when the call threw instead), the blocks
\* that ran (work) and the histogram passes of the classifier.
NoPasses == <<>>

updateGeoEnter(e, g) ==
  [av |-> e, geo |-> g, returned |-> FALSE, ret |-> 1, raised |-> FALSE, work |-> {},
   passes |-> NoPasses]

\* an early return that still counts the call in m_geoStage
updateGeoFinishedCounting(u) ==
  IF u.av.m_state = AV_STATE_FINISHED
  THEN [u EXCEPT !.returned = TRUE, !.ret = 1, !.av.m_geoStage = @ + 1]
  ELSE u

\* if (this.m_state === AV_STATE_FINISHED) return 1
updateGeoFinished(u) ==
  IF u.av.m_state = AV_STATE_FINISHED THEN [u EXCEPT !.returned = TRUE, !.ret = 1] ELSE u

\* a first update that sets up the smoothing before it tests the status of
\* the normals
UpdateNotStartedSmoothFirst(u, okNormals) ==
  IF u.returned \/ u.av.m_state # AV_STATE_NOT_STARTED THEN u
  ELSE IF okNormals # 1
  THEN [u EXCEPT !.geo = createNormalsForGeometry(@, okNormals),
                 !.av = startImageSmooth(@),
                 !.returned = TRUE, !.ret = okNormals]
  ELSE [u EXCEPT !.geo = createNormalsForGeometry(@, okNormals),
                 !.av = [startImageSmooth(@) EXCEPT !.m_gaussStage = 0,
                                                    !.m_state = AV_STATE_PREPARE_GAUSS],
                 !.work = @ \cup {"start"}]

\* "first update": the normals, then startImageSmooth
UpdateNotStarted(u, okNormals) ==
  IF u.returned \/ u.av.m_state # AV_STATE_NOT_STARTED THEN u
  ELSE IF okNormals # 1
  THEN [u EXCEPT !.geo = createNormalsForGeometry(@, okNormals),
                 !.returned = TRUE, !.ret = okNormals]
  ELSE [u EXCEPT !.geo = createNormalsForGeometry(@, okNormals),
                 !.av = [startImageSmooth(@) EXCEPT !.m_gaussStage = 0,
                                                    !.m_state = AV_STATE_PREPARE_GAUSS],
                 !.work = @ \cup {"start"}]

\* a band that always starts at the first slice
BandStartZero(e) == 0

\* one band of the smoothing; after the last one the state changes
BandStart(e) == (e.m_zDim * (e.m_gaussStage + 0)) \div ACT_VOL_NUM_SMOOTH_STAGES

\* a band that runs on to the end of the next stage's band
BandEndNextStage(e) == (e.m_zDim * (e.m_gaussStage + 2)) \div ACT_VOL_NUM_SMOOTH_STAGES

BandEnd(e) == (e.m_zDim * (e.m_gaussStage + 1)) \div ACT_VOL_NUM_SMOOTH_STAGES

SmoothBand(e) == applyPartGaussSmooth(e, BandStart(e), BandEnd(e), GAUSS_RAD, GAUSS_SIGMA10)

\* the smoothing ends one stage early
GaussStageDoneEarly(e) ==
  IF e.m_gaussStage + 2 >= ACT_VOL_NUM_SMOOTH_STAGES
  THEN [e EXCEPT !.m_gaussStage = @ + 1, !.m_state = AV_STATE_PREPARE_UNIFORMITY,
                 !.m_uniformityStage = 0]
  ELSE [e EXCEPT !.m_gaussStage = @ + 1]

GaussStageDone(e) ==
  IF e.m_gaussStage + 1 >= ACT_VOL_NUM_SMOOTH_STAGES
  THEN [e EXCEPT !.m_gaussStage = @ + 1, !.m_state = AV_STATE_PREPARE_UNIFORMITY,
                 !.m_uniformityStage = 0]
  ELSE [e EXCEPT !.m_gaussStage = @ + 1]

UpdatePrepareGauss(u) ==
  IF u.returned \/ u.av.m_state # AV_STATE_PREPARE_GAUSS THEN u
  ELSE [u EXCEPT !.av = GaussStageDone(SmoothBand(@)), !.work = @ \cup {"gauss"}]

\* a classifier that runs at the first uniformity stage
RunsClassifierFirstStage(e) == e.m_uniformityStage + 1 = 1

\* TRUE when this call of the PrepareUniformity block runs the classifier
RunsClassifier(e) == e.m_uniformityStage + 1 = ACT_VOL_NUM_SMOOTH_STAGES

\* the end of the PrepareUniformity block once getHistogram returned h
Classified(u, h) ==
  [u EXCEPT !.av = [stopImageSmooth(h.av) EXCEPT !.m_geoStage = 0,
                                                 !.m_state = AV_STATE_UPDATE_GEO],
            !.passes = h.passes,
            !.work = @ \cup {"uniformity", "classify"}]

UpdatePrepareUniformity(u) ==
  IF u.returned \/ u.av.m_state # AV_STATE_PREPARE_UNIFORMITY THEN u
  ELSE IF RunsClassifier(u.av)
  THEN Classified(u, getHistogram([u.av EXCEPT !.m_uniformityStage = @ + 1]))
  ELSE [u EXCEPT !.av.m_uniformityStage = @ + 1, !.work = @ \cup {"uniformity"}]

\* the relaxation routine the method bits select: "none", or the name of the
\* method called
Dispatch(method) ==
  LET updateNormals == HasBit(method, AV_METHOD_NORMALS)
      updateUniformity == HasBit(method, AV_METHOD_UNIFORMITY)
      updateColorKoefs == HasBit(method, AV_METHOD_COLOR_KOEFS)
  IN IF updateNormals /\ ~updateUniformity THEN "updateGeoByVertexNormals"
     ELSE IF updateNormals /\ updateUniformity /\ ~updateColorKoefs
       THEN "updateGeoByVertexNormalsAndUniformity"
     ELSE IF updateNormals /\ updateUniformity /\ updateColorKoefs
       THEN "updateGeoNormalsUniformityColors"
     ELSE "none"

\* the class defines updateGeoNormalsUniformityColors only: calling one of
\* the other two is a TypeError, raised before m_geoStage++
IsDefinedMethod(name) == name = "updateGeoNormalsUniformityColors"

\* new Float32Array(numVertices * COORDS_IN_VERTREX) when m_verticesNew is null
AllocVerticesNew(e, g) ==
  IF e.m_verticesNew.isNull
  THEN [e EXCEPT !.m_verticesNew = Arr(Zeros(g.numVertices * COORDS_IN_VERTEX))]
  ELSE e

\* the relaxation routine returned isFinished (FALSE when none is called)
Relaxed(e, isFinished) ==
  IF isFinished THEN [e EXCEPT !.m_state = AV_STATE_FINISHED, !.m_geoStage = @ + 1]
  ELSE [e EXCEPT !.m_geoStage = @ + 1]

UpdateStateGeo(u, method) ==
  IF u.returned \/ u.av.m_state # AV_STATE_UPDATE_GEO THEN u
  ELSE IF Dispatch(method) = "none"
  THEN [u EXCEPT !.av = Relaxed(AllocVerticesNew(@, u.geo), FALSE)]
  ELSE IF ~IsDefinedMethod(Dispatch(method))
  THEN [u EXCEPT !.av = AllocVerticesNew(@, u.geo), !.raised = TRUE, !.ret = 0]
  ELSE [u EXCEPT !.av = Relaxed(AllocVerticesNew(@, u.geo),
                                updateGeoNormalsUniformityColors(u.geo)),
                 !.work = @ \cup {"relax"}]

\* the final return 1
updateGeoReturn(u) == IF u.returned \/ u.raised THEN u ELSE [u EXCEPT !.returned = TRUE, !.ret = 1]

\* updateGeo from its entry to the end of the PrepareUniformity block
UpdateUntilGeo(e, g, okNormals) ==
  UpdatePrepareUniformity(UpdatePrepareGauss(UpdateNotStarted(
    updateGeoFinished(updateGeoEnter(e, g)), okNormals)))

\* the UpdateGeo block and the final return, after u
UpdateFromGeo(u, method) == updateGeoReturn(UpdateStateGeo(u, method))

updateGeo(e, g, method, okNormals) == UpdateFromGeo(UpdateUntilGeo(e, g, okNormals), method)

(***************************************************************************)
(* getPredictedStepsForActiveVolumeUpdate(): max(xDim, yDim, zDim) / 2 +   *)
(* 18, a number that is fractional for an odd maximum                      *)
(***************************************************************************)
getPredictedStepsForActiveVolumeUpdate(e) ==
  LET xyMax == IF e.m_xDim > e.m_yDim THEN e.m_xDim ELSE e.m_yDim
      xyzMax == IF xyMax > e.m_zDim THEN xyMax ELSE e.m_zDim
  IN R(xyzMax + 2 * ACT_VOL_NUM_SMOOTH_STAGES, 2)

(***************************************************************************)
(* skullRemove(xDim, yDim, zDim, volTexSrc, volTexDst, ...)                *)
(***************************************************************************)
\* "scale geo render vertices": v = dim2 + dim2 * v, dim2 = (dim - 1) * 0.5
ScaleVertices(e, g) ==
  LET dim(c) == IF c = 0 THEN e.m_xDim ELSE IF c = 1 THEN e.m_yDim ELSE e.m_zDim
      scaled(i) ==
        LET c == (i - 1) % COORDS_IN_VERTEX
        IN IF c = 3 THEN g.vertices[i]
           ELSE ((dim(c) - 1) * (4 + g.vertices[i])) \div 2
  IN [g EXCEPT !.vertices = [i \in DOMAIN g.vertices |-> scaled(i)]]

\* a dimension test that lets a dimension of 1 pass
BadDimensionsBelowOne(xDim, yDim, zDim) ==
  \/ xDim >= TOO_MUCH_SIZE \/ yDim >= TOO_MUCH_SIZE \/ zDim >= TOO_MUCH_SIZE
  \/ xDim < 1 \/ yDim < 1 \/ zDim < 1

\* the dimension test at the head of skullRemove
BadDimensions(xDim, yDim, zDim) ==
  \/ xDim >= TOO_MUCH_SIZE \/ yDim >= TOO_MUCH_SIZE \/ zDim >= TOO_MUCH_SIZE
  \/ xDim <= 1 \/ yDim <= 1 \/ zDim <= 1

\* the method skullRemove passes to updateGeo
LoopMethod == AV_METHOD_ALL

\* skullRemove up to its loop: the instance and the mesh, the status
\* returned (ret, when returned is TRUE), the loop bound otherwise, and
\* the calls made so far to create and to the mesh generator
skullRemoveEnter(e, g, xDim, yDim, zDim, kind, okCreateTetra, errGeo) ==
  LET none == [av |-> e, geo |-> g, returned |-> TRUE, ret |-> -1, creates |-> 0, meshes |-> 0,
               numPredSteps |-> FromInt(0)]
  IN IF BadDimensions(xDim, yDim, zDim) THEN none
     ELSE
       LET c == create(e, xDim, yDim, zDim, SrcVolume(kind, xDim, yDim, zDim))
           created == [none EXCEPT !.av = c.av, !.creates = 1]
       IN IF c.ret # 1 THEN [created EXCEPT !.ret = c.ret]
          ELSE IF okCreateTetra < 1 THEN [created EXCEPT !.ret = okCreateTetra, !.meshes = 1]
          ELSE IF errGeo # 1 THEN [created EXCEPT !.ret = -3, !.meshes = 1]
          ELSE [created EXCEPT !.geo = ScaleVertices(c.av, SeedGeo), !.returned = FALSE,
                               !.meshes = 1,
                               !.numPredSteps = getPredictedStepsForActiveVolumeUpdate(c.av)]

\* a loop test that lets iter reach numPredSteps
LoopContinuesThrough(iter, numPredSteps, isFinished) ==
  ~Less(numPredSteps, FromInt(iter)) /\ ~isFinished

\* the loop test: (iter < numPredSteps) && !isFinished
LoopContinues(iter, numPredSteps, isFinished) ==
  Less(FromInt(iter), numPredSteps) /\ ~isFinished

\* a status that tells an exhausted budget from completion
LoopStatusByState(isFinished) == IF isFinished THEN 1 ELSE -4

\* the status returned after the loop: return +1
LoopStatus(isFinished) == 1

(***************************************************************************)
(* The state machine: one instance, used for one run.  The run starts on   *)
(* the new instance, with create followed by the client's own updateGeo    *)
(* calls, or with skullRemove, which drives updateGeo itself.  A           *)
(* skullRemove that refuses its dimensions can come at any time.           *)
(***************************************************************************)
\* the client's updateGeo is explored on volumes of at most this many voxels
MaxPixels == 600

Methods == {0, AV_METHOD_NORMALS, AV_METHOD_NORMALS + AV_METHOD_UNIFORMITY,
            AV_METHOD_NORMALS + AV_METHOD_COLOR_KOEFS, AV_METHOD_ALL}

\* dimension triples given to create
CreateDims == { <<2, 2, 2>>, <<3, 2, 5>>, <<5, 5, 5>>, <<8, 8, 8>>, <<8191, 2, 2>>,
                <<1, 2, 2>>, <<2, 0, 2>>, <<2, 2, 8192>> }

\* dimension triples given to skullRemove
GoodRunDims == { <<2, 2, 2>>, <<3, 2, 2>>, <<5, 5, 5>>, <<2, 32, 2>>, <<33, 2, 2>>,
                 <<2, 2, 34>>, <<36, 2, 2>> }
BadRunDims ==  { <<1, 2, 2>>, <<2, 0, 2>>, <<2, 2, -1>>, <<8192, 2, 2>>, <<2, 8193, 2>>,
                 <<8191, 8191, 8192>> }

Statuses == {-1, 0, 1}

NoCall ==
  [op |-> "new", dims |-> <<0, 0, 0>>, ret |-> 0, raised |-> FALSE, work |-> {},
   creates |-> 0, meshes |-> 0, updates |-> 0, methods |-> {}, passes |-> NoPasses]

\* no skullRemove call is in progress, and none has run on the instance
Idle ==
  [pc |-> "idle", dims |-> <<0, 0, 0>>, iter |-> 0, numPredSteps |-> FromInt(0),
   isFinished |-> FALSE, okNormals |-> 1, creates |-> 0, meshes |-> 0, methods |-> {},
   passes |-> NoPasses]

\* skullRemove has run on the instance and returned
Returned == [Idle EXCEPT !.pc = "returned"]

Init ==
  /\ av = NewActiveVolume
  /\ geo = SeedGeo
  /\ volTexDst \in {<<0, 0>>, <<7, 9>>}
  /\ call = NoCall
  /\ sr = Idle

\* Inputs that a call never reads are fixed instead of enumerated: the
\* contents of a volume too large to step, the method of an updateGeo call
\* that does not get to test m_state against Finished or UpdateGeo with it,
\* the status of createNormalsForGeometry outside NotStarted, and everything
\* skullRemove would obtain after the point where it returns.
ReadsMethod(e) ==
  \/ e.m_state = AV_STATE_UPDATE_GEO
  \/ e.m_state = AV_STATE_FINISHED
  \/ e.m_state = AV_STATE_PREPARE_UNIFORMITY /\ RunsClassifier(e)

\* the record of an updateGeo call that ended as u
UpdateGeoCall(u, method) ==
  [NoCall EXCEPT !.op = "updateGeo", !.ret = u.ret, !.raised = u.raised, !.work = u.work,
                 !.updates = 1, !.methods = {method}, !.passes = u.passes]

Create ==
  /\ sr.pc = "idle"
  /\ av.m_state = AV_STATE_NA
  /\ \E d \in CreateDims, kind \in VolKinds :
       /\ BadDimensions(d[1], d[2], d[3]) \/ d[1] * d[2] * d[3] > MaxPixels => kind = "flat"
       /\ \E c \in {create(av, d[1], d[2], d[3], SrcVolume(kind, d[1], d[2], d[3]))} :
            /\ av' = c.av
            /\ call' = [NoCall EXCEPT !.op = "create", !.dims = d, !.ret = c.ret, !.creates = 1]
  /\ UNCHANGED <<geo, volTexDst, sr>>

\* updateGeo called by the client
UpdateGeo ==
  /\ sr.pc = "idle"
  /\ av.m_state = AV_STATE_UPDATE_GEO => av.m_geoStage < MaxGeoStage
  /\ av.m_xDim * av.m_yDim * av.m_zDim <= MaxPixels
  /\ \E okNormals \in Statuses :
       /\ av.m_state = AV_STATE_NOT_STARTED \/ okNormals = 1
       /\ \E p \in {UpdateUntilGeo(av, geo, okNormals)} :
            \E method \in Methods :
              /\ ReadsMethod(av) \/ method = AV_METHOD_ALL
              /\ \E u \in {UpdateFromGeo(p, method)} :
                   /\ av' = u.av
                   /\ geo' = u.geo
                   /\ call' = UpdateGeoCall(u, method)
  /\ UNCHANGED <<volTexDst, sr>>

\* skullRemove is called: it returns at once, or reaches its loop
SkullRemove ==
  /\ sr.pc # "loop"
  /\ \E d \in GoodRunDims \cup BadRunDims, kind \in VolKinds,
        okCreateTetra \in Statuses, errGeo \in Statuses, okNormals \in Statuses :
       /\ BadDimensions(d[1], d[2], d[3]) \/ av.m_state = AV_STATE_NA
       /\ BadDimensions(d[1], d[2], d[3]) => kind = "flat" /\ okCreateTetra = 1
       /\ BadDimensions(d[1], d[2], d[3]) \/ okCreateTetra < 1 => errGeo = 1
       /\ BadDimensions(d[1], d[2], d[3]) \/ okCreateTetra < 1 \/ errGeo # 1 => okNormals = 1
       /\ \E s \in {skullRemoveEnter(av, geo, d[1], d[2], d[3], kind, okCreateTetra, errGeo)} :
            /\ av' = s.av
            /\ geo' = s.geo
            /\ IF s.returned
               THEN /\ call' = [NoCall EXCEPT !.op = "skullRemove", !.dims = d, !.ret = s.ret,
                                              !.creates = s.creates, !.meshes = s.meshes]
                    /\ sr' = IF s.creates = 0 THEN sr ELSE Returned
               ELSE /\ call' = call
                    /\ sr' = [Idle EXCEPT !.pc = "loop", !.dims = d,
                                          !.numPredSteps = s.numPredSteps,
                                          !.okNormals = okNormals,
                                          !.creates = s.creates, !.meshes = s.meshes]
  /\ UNCHANGED volTexDst

\* one iteration of the loop of skullRemove
SkullRemoveIterate ==
  /\ sr.pc = "loop"
  /\ LoopContinues(sr.iter, sr.numPredSteps, sr.isFinished)
  /\ \E u \in {updateGeo(av, geo, LoopMethod, sr.okNormals)} :
       /\ av' = u.av
       /\ geo' = u.geo
       /\ call' = UpdateGeoCall(u, LoopMethod)
       /\ sr' = [sr EXCEPT !.iter = @ + 1,
                           !.isFinished = u.av.m_state = AV_STATE_FINISHED,
                           !.methods = @ \cup {LoopMethod},
                           !.passes = IF u.passes # NoPasses THEN u.passes ELSE @]
  /\ UNCHANGED volTexDst

\* the loop has ended: return +1
SkullRemoveReturn ==
  /\ sr.pc = "loop"
  /\ ~LoopContinues(sr.iter, sr.numPredSteps, sr.isFinished)
  /\ call' = [NoCall EXCEPT !.op = "skullRemove", !.dims = sr.dims,
                            !.ret = LoopStatus(sr.isFinished),
                            !.creates = sr.creates, !.meshes = sr.meshes,
                            !.updates = sr.iter, !.methods = sr.methods,
                            !.passes = sr.passes]
  /\ sr' = Returned
  /\ UNCHANGED <<av, geo, volTexDst>>

Next == Create \/ UpdateGeo \/ SkullRemove \/ SkullRemoveIterate \/ SkullRemoveReturn

Spec == Init /\ [][Next]_vars

(***************************************************************************)
(* The instance in the state Finished.  updateGeoNormalsUniformityColors   *)
(* never reports completion, so no run of Spec gets there; m_state is a    *)
(* public field, and updateGeo tests it first.  SpecFinished starts from   *)
(* instances that completed their preparation and whose m_state is         *)
(* Finished, and makes the calls of Spec on them.                          *)
(***************************************************************************)
FinishedDims == { <<2, 2, 2>>, <<3, 2, 5>> }
FinishedGeoStages == {1, 7}

FinishedEngine(d, kind, geoStage) ==
  [create(NewActiveVolume, d[1], d[2], d[3], SrcVolume(kind, d[1], d[2], d[3])).av
     EXCEPT !.m_state = AV_STATE_FINISHED,
            !.m_gaussStage = ACT_VOL_NUM_SMOOTH_STAGES,
            !.m_uniformityStage = ACT_VOL_NUM_SMOOTH_STAGES,
            !.m_geoStage = geoStage,
            !.m_indexMinColor = 0,
            !.m_colorKoefs = ColorKoefs(0),
            !.m_verticesNew = Arr(Zeros(MeshVertices * COORDS_IN_VERTEX))]

InitFinished ==
  /\ av \in {FinishedEngine(d, kind, geoStage) :
               d \in FinishedDims, kind \in VolKinds, geoStage \in FinishedGeoStages}
  /\ geo = createNormalsForGeometry(SeedGeo, 1)
  /\ volTexDst \in {<<0, 0>>, <<7, 9>>}
  /\ call = NoCall
  /\ sr = Idle

NextFinished == UpdateGeo \/ SkullRemove

SpecFinished == InitFinished /\ [][NextFinished]_vars

(***************************************************************************)
(* "build color koefs" alone: the loop of getHistogram that fills          *)
(* m_colorKoefs, for every index the search before it can leave in         *)
(* m_indexMinColor (0, or one of 1..MAGIC_PART_HIST - 1).                  *)
(***************************************************************************)
IndexMinColors == 0..(MAGIC_PART_HIST - 1)

BuildColorKoefs ==
  /\ call.op = "new"
  /\ \E m \in IndexMinColors :
       av' = [av EXCEPT !.m_indexMinColor = m, !.m_colorKoefs = ColorKoefs(m)]
  /\ call' = [NoCall EXCEPT !.op = "colorKoefs"]
  /\ UNCHANGED <<geo, volTexDst, sr>>

SpecColorKoefs == Init /\ [][BuildColorKoefs]_vars

(***************************************************************************)
(* The smoothing alone.  SpecSmooth takes a created instance through the   *)
(* updateGeo calls of its smoothing, or calls applyPartGaussSmooth on it   *)
(* directly, on [0, k) and then on [k, zDim); call holds the trace of the  *)
(* applyPartGaussSmooth calls made so far: their Z ranges, how many of     *)
(* them built the kernel and copied the source, and how many times each    *)
(* voxel was overwritten by the convolution.                               *)
(***************************************************************************)
\* the largest zDim of the volumes without interior voxels
MaxZDim == 40

SmoothDims ==
  {<<2, 2, z>> : z \in 2..MaxZDim} \cup {<<5, 5, 5>>, <<5, 5, 7>>, <<6, 5, 20>>, <<3, 4, 6>>}

\* (rad, sigma in tenths) of the direct calls
SmoothParams == {<<2, 18>>, <<1, 18>>, <<2, -18>>, <<0, 18>>, <<2, 0>>}

SmoothStart(e) ==
  [op |-> "start", rad |-> GAUSS_RAD, sigma10 |-> GAUSS_SIGMA10, bands |-> <<>>,
   builds |-> 0, writes |-> Zeros(e.m_xDim * e.m_yDim * e.m_zDim)]

\* the trace t after a call of applyPartGaussSmooth(zStart, zEnd, rad, ...) on e
SmoothTraceAfter(t, e, zStart, zEnd, rad) ==
  [t EXCEPT !.bands = Append(t.bands, <<zStart, zEnd>>),
            !.builds = t.builds + (IF BuildsKernel(zStart) THEN 1 ELSE 0),
            !.writes = [i \in DOMAIN t.writes |->
                          t.writes[i] + (IF InBand(e, i - 1, zStart, zEnd, rad) THEN 1 ELSE 0)]]

InitSmooth ==
  /\ av \in {create(NewActiveVolume, d[1], d[2], d[3], SrcVolume(kind, d[1], d[2], d[3])).av :
               d \in SmoothDims, kind \in {"valley", "plateau"}}
  /\ geo = SeedGeo
  /\ volTexDst = <<0, 0>>
  /\ call = SmoothStart(av)
  /\ sr = Idle

\* updateGeo called by the client while the instance is smoothing; p is the
\* call at the entry of its PrepareGauss block
SmoothUpdateGeo ==
  /\ call.op \in {"start", "updateGeo"}
  /\ av.m_state \in {AV_STATE_NOT_STARTED, AV_STATE_PREPARE_GAUSS}
  /\ \E p \in {UpdateNotStarted(updateGeoFinished(updateGeoEnter(av, geo)), 1)} :
       \E u \in {UpdateFromGeo(UpdatePrepareUniformity(UpdatePrepareGauss(p)), AV_METHOD_ALL)} :
         /\ av' = u.av
         /\ geo' = u.geo
         /\ call' = [SmoothTraceAfter(call, p.av, BandStart(p.av), BandEnd(p.av), GAUSS_RAD)
                       EXCEPT !.op = "updateGeo"]
  /\ UNCHANGED <<volTexDst, sr>>

\* applyPartGaussSmooth(0, k, rad, sigma) called on the instance once its
\* smoothing buffers are set up
SmoothPart ==
  /\ call.op = "start"
  /\ \E prm \in SmoothParams, k \in 0..av.m_zDim :
       /\ av' = applyPartGaussSmooth(startImageSmooth(av), 0, k, prm[1], prm[2])
       /\ call' = [SmoothTraceAfter(call, av, 0, k, prm[1])
                     EXCEPT !.op = "applyPartGaussSmooth", !.rad = prm[1], !.sigma10 = prm[2]]
  /\ UNCHANGED <<geo, volTexDst, sr>>

\* applyPartGaussSmooth(k, zDim, rad, sigma) after the call on [0, k)
SmoothRest ==
  /\ call.op = "applyPartGaussSmooth"
  /\ Len(call.bands) = 1
  /\ av' = applyPartGaussSmooth(av, call.bands[1][2], av.m_zDim, call.rad, call.sigma10)
  /\ call' = SmoothTraceAfter(call, av, call.bands[1][2], av.m_zDim, call.rad)
  /\ UNCHANGED <<geo, volTexDst, sr>>

NextSmooth == SmoothUpdateGeo \/ SmoothPart \/ SmoothRest

SpecSmooth == InitSmooth /\ [][NextSmooth]_vars

(***************************************************************************)
(* "get probabilities" and "find min probability" alone: the two loops of  *)
(* getHistogram after its first counting loop.  SpecMinColor starts from   *)
(* instances whose m_histogram holds the counts of a volume with xDim = 2, *)
(* which has no interior voxel, so that its smoothed image is its source   *)
(* and any counts that sum to the number of voxels can occur.  The volume  *)
(* buffers, which the two loops do not read, are left out.                 *)
(***************************************************************************)
\* volumes: 2 x 2 x 4, 2 x 4 x 16 and 2 x 8191 x 8191
MinColorDims == { <<2, 2, 4>>, <<2, 4, 16>>, <<2, 8191, 8191>> }

\* bin of the second of the counts below
MinColorBins == {1, 2, 30, 62, 63, 64, 70}

\* counts of consecutive bins; the other voxels are in bin 255
MinColorCounts ==
  { <<3, 1, 2>>, <<2, 2, 3>>, <<1, 2, 3>>, <<5, 0, 4>>, <<3, 1, 2, 1, 4>>, <<3, 2, 1, 0, 1>>,
    <<44728319, 44728318, 44728319>>, <<44728321, 44728320, 44728321>>,
    <<1000, 999, 1000, 999, 1000>> }

CountedHistogram(bin, counts, numPixels) ==
  [i \in 1..AV_NUM_COLORS |->
     IF i - bin + 1 \in 1..Len(counts) THEN counts[i - bin + 1]
     ELSE IF i = AV_NUM_COLORS THEN numPixels - SeqSum(counts)
     ELSE 0]

CountedEngine(d, bin, counts) ==
  [NewActiveVolume EXCEPT !.m_state = AV_STATE_PREPARE_UNIFORMITY,
                          !.m_xDim = d[1], !.m_yDim = d[2], !.m_zDim = d[3],
                          !.m_gaussStage = ACT_VOL_NUM_SMOOTH_STAGES,
                          !.m_uniformityStage = ACT_VOL_NUM_SMOOTH_STAGES,
                          !.m_histogram = CountedHistogram(bin, counts, d[1] * d[2] * d[3])]

InitMinColor ==
  /\ \E d \in MinColorDims, bin \in MinColorBins, counts \in MinColorCounts :
       /\ SeqSum(counts) <= d[1] * d[2] * d[3]
       /\ av = CountedEngine(d, bin, counts)
  /\ geo = SeedGeo
  /\ volTexDst = <<0, 0>>
  /\ call = [NoCall EXCEPT !.op = "histogram"]
  /\ sr = Idle

FindMinColor ==
  /\ call.op = "histogram"
  /\ \E prob \in {Probabilities(av.m_histogram, av.m_xDim * av.m_yDim * av.m_zDim)} :
       av' = [av EXCEPT !.m_colorProbability = prob, !.m_indexMinColor = IndexMinColor(prob)]
  /\ call' = [NoCall EXCEPT !.op = "minColor"]
  /\ UNCHANGED <<geo, volTexDst, sr>>

SpecMinColor == InitMinColor /\ [][FindMinColor]_vars

(***************************************************************************)
(* Properties                                                              *)
(***************************************************************************)
\* C1: between calls the state follows the order NotStarted, PrepareGauss,
\* PrepareUniformity, UpdateGeo, Finished: a call leaves m_state as it is or
\* moves it to the next state of the order, never backward and never past a
\* state (create moves it from NA, the state before NotStarted, to NotStarted).
C1_StateOrder ==
  [][av'.m_state = av.m_state \/ av'.m_state = av.m_state + 1]_vars

\* a client of create and updateGeo has walked the instance through the
\* preparation into UpdateGeo and made one more call there
C1_Witness ==
  /\ sr.pc = "idle" /\ call.op = "updateGeo"
  /\ av.m_state = AV_STATE_UPDATE_GEO /\ av.m_geoStage = 2

\* C2: in the state Finished every updateGeo call, with any method, returns
\* 1 and changes neither the instance (state, stage counters, buffers) nor
\* the mesh.
C2_FinishedNoOp ==
  [][av.m_state = AV_STATE_FINISHED /\ call'.op = "updateGeo"
       => call'.ret = 1 /\ ~call'.raised /\ av' = av /\ geo' = geo]_vars

\* updateGeo returned on a Finished instance, called with a method whose
\* routine the class does not define, after an earlier call
C2_Witness ==
  /\ av.m_state = AV_STATE_FINISHED /\ av.m_geoStage = 7
  /\ call.op = "updateGeo" /\ call.ret = 1
  /\ call.methods = {AV_METHOD_NORMALS}

\* C3: a skullRemove call with a dimension <= 1 or >= 8192 returns a
\* negative status and changes nothing: the destination volume, the
\* instance and the mesh are as before, and it has called neither create
\* nor the mesh generator nor updateGeo.
C3_BadDimensionsRefused ==
  [][/\ call' # call
     /\ call'.op = "skullRemove"
     /\ \E i \in 1..3 : call'.dims[i] <= 1 \/ call'.dims[i] >= 8192
     => /\ call'.ret < 0
        /\ volTexDst' = volTexDst /\ av' = av /\ geo' = geo
        /\ call'.creates = 0 /\ call'.meshes = 0 /\ call'.updates = 0]_vars

\* skullRemove refused its dimensions on an instance in the middle of its
\* smoothing
C3_Witness ==
  /\ call.op = "skullRemove" /\ call.dims = <<8191, 8191, 8192>> /\ call.ret = -1
  /\ av.m_state = AV_STATE_PREPARE_GAUSS /\ av.m_gaussStage = 3

\* C4: create with every dimension in 2..8191 returns 1, records the
\* dimensions, leaves the state NotStarted and allocates m_imageGauss and
\* m_imageUniformity with xDim * yDim * zDim elements each.
C4_CreateAllocates ==
  call.op = "create" /\ (\A i \in 1..3 : call.dims[i] > 1 /\ call.dims[i] < 8192)
  => /\ call.ret = 1
     /\ av.m_xDim = call.dims[1] /\ av.m_yDim = call.dims[2] /\ av.m_zDim = call.dims[3]
     /\ av.m_state = AV_STATE_NOT_STARTED
     /\ ~av.m_imageGauss.isNull /\ ~av.m_imageUniformity.isNull
     /\ Len(av.m_imageGauss.data) = call.dims[1] * call.dims[2] * call.dims[3]
     /\ Len(av.m_imageUniformity.data) = call.dims[1] * call.dims[2] * call.dims[3]

\* create returned for the largest valid x dimension
C4_Witness ==
  /\ call.op = "create" /\ call.dims = <<8191, 2, 2>> /\ call.ret = 1
  /\ Len(av.m_imageGauss.data) = 32764

\* C5: create with a dimension <= 1 or >= 8192 does not return success.
C5_CreateRejects ==
  call.op = "create" /\ (\E i \in 1..3 : call.dims[i] <= 1 \/ call.dims[i] >= 8192)
  => call.ret # 1

\* C6: once the loop of skullRemove ends, skullRemove returns +1, whatever
\* the state of the instance.
C6_LoopEndReturnsOne ==
  [][sr.pc = "loop" /\ sr'.pc # "loop" => call'.op = "skullRemove" /\ call'.ret = 1]_vars

\* skullRemove returned +1 with its budget used up during the smoothing
C6_Witness ==
  /\ call.op = "skullRemove" /\ call.ret = 1 /\ call.updates = 20
  /\ av.m_state = AV_STATE_PREPARE_UNIFORMITY

\* C7: no updateGeo call both smooths a band and advances the uniformity
\* counter, and none both runs the classifier and makes a relaxation pass.
C7_OneStatePerCall ==
  call.op = "updateGeo"
  => /\ ~({"gauss", "uniformity"} \subseteq call.work)
     /\ ~({"classify", "relax"} \subseteq call.work)

\* C8: skullRemove calls updateGeo with AV_METHOD_ALL only, and at most
\* max(xDim, yDim, zDim) / 2 + 18 times.
C8_Budget ==
  call.op = "skullRemove" /\ call.updates > 0
  => /\ call.methods = {AV_METHOD_ALL}
     /\ 2 * call.updates <= Max(Max(call.dims[1], call.dims[2]), call.dims[3]) + 2 * 18

\* C9: after each of the two histogram passes of getHistogram the sum of the
\* 256 counts equals the number of voxels the pass sampled.
C9_HistogramSums ==
  \A p \in DOMAIN call.passes : call.passes[p].sum = call.passes[p].sampled

\* C10: ColorKoefs[indexMinColor] = 0, every coefficient is in [0, 1), and
\* the coefficients do not decrease as |i - indexMinColor| grows.
C10_ColorKoefs ==
  call.op = "colorKoefs"
  => /\ av.m_colorKoefs[av.m_indexMinColor + 1].num = 0
     /\ \A i \in 1..AV_NUM_COLORS :
          /\ av.m_colorKoefs[i].den > 0
          /\ 0 <= av.m_colorKoefs[i].num
          /\ av.m_colorKoefs[i].num < av.m_colorKoefs[i].den
     /\ \A i, j \in 0..(AV_NUM_COLORS - 1) :
          Abs(i - av.m_indexMinColor) <= Abs(j - av.m_indexMinColor)
          => av.m_colorKoefs[i + 1].num * av.m_colorKoefs[j + 1].den
               <= av.m_colorKoefs[j + 1].num * av.m_colorKoefs[i + 1].den

\* the coefficients built around the minimum 21 rise on both sides of it
C10_Witness ==
  /\ call.op = "colorKoefs" /\ av.m_indexMinColor = 21
  /\ av.m_colorKoefs[22].num = 0
  /\ av.m_colorKoefs[1].num > av.m_colorKoefs[21].num
  /\ av.m_colorKoefs[21].num > 0
  /\ av.m_colorKoefs[256].num * av.m_colorKoefs[1].den
       > av.m_colorKoefs[1].num * av.m_colorKoefs[256].den

\* C11: calling applyPartGaussSmooth on [0, k) and then on [k, zDim), with
\* one radius and sigma, leaves m_imageGauss equal, voxel for voxel, to the
\* result of the single call on [0, zDim), for every k in 0..zDim.
C11_BandPartition ==
  call.op = "applyPartGaussSmooth" /\ Len(call.bands) = 2 /\ call.rad > 0 /\ call.sigma10 > 0
  => av.m_imageGauss
       = applyPartGaussSmooth(startImageSmooth(av), 0, av.m_zDim,
                              call.rad, call.sigma10).m_imageGauss

\* the two calls split the interior slices of a 5 x 5 x 7 volume at k = 3:
\* the first overwrote one voxel, the second two
C11_Witness ==
  /\ call.op = "applyPartGaussSmooth" /\ call.bands = <<(<<0, 3>>), (<<3, 7>>)>>
  /\ call.rad = 2 /\ call.sigma10 = 18
  /\ av.m_xDim = 5 /\ av.m_zDim = 7
  /\ call.writes[63] = 1 /\ call.writes[88] = 1 /\ call.writes[113] = 1
  /\ av.m_imageGauss.data[88] # FromInt(av.m_pixelsSrc.data[88])

\* C12: after the 18 smoothing calls of a run, a voxel with an index within
\* the radius of a face of the volume holds the raw source value and was
\* never overwritten by the convolution; every other voxel was overwritten
\* by the convolution exactly once and holds the weighted sum of the source
\* samples under the kernel.
C12_BorderKeepsSource ==
  call.op = "updateGeo" /\ Len(call.bands) = ACT_VOL_NUM_SMOOTH_STAGES
  => \A off \in 0..(av.m_xDim * av.m_yDim * av.m_zDim - 1) :
       LET x == off % av.m_xDim
           y == (off \div av.m_xDim) % av.m_yDim
           z == off \div (av.m_xDim * av.m_yDim)
       IN IF /\ GAUSS_RAD <= x /\ x < av.m_xDim - GAUSS_RAD
             /\ GAUSS_RAD <= y /\ y < av.m_yDim - GAUSS_RAD
             /\ GAUSS_RAD <= z /\ z < av.m_zDim - GAUSS_RAD
          THEN /\ call.writes[off + 1] = 1
               /\ av.m_imageGauss.data[off + 1]
                    = GaussConv(av, av.m_gaussMatrix.data, GAUSS_RAD, x, y, z)
          ELSE /\ call.writes[off + 1] = 0
               /\ av.m_imageGauss.data[off + 1] = FromInt(av.m_pixelsSrc.data[off + 1])

\* the 18 calls are made on a 6 x 5 x 20 volume: the voxel (2, 2, 10) is
\* smoothed, its neighbour (1, 2, 10) on the border is not
C12_Witness ==
  /\ call.op = "updateGeo" /\ Len(call.bands) = ACT_VOL_NUM_SMOOTH_STAGES
  /\ av.m_xDim = 6 /\ av.m_zDim = 20
  /\ call.writes[315] = 1 /\ av.m_imageGauss.data[315].den > 1
  /\ call.writes[314] = 0 /\ av.m_imageGauss.data[314].den = 1

\* C13: when the mesh generator or the mesh import reports an error,
\* skullRemove returns a negative status and has not called updateGeo.  (A
\* skullRemove call that returns before its loop, after asking for the mesh,
\* is one whose generator or import failed.)
C13_MeshFailureNegative ==
  [][/\ sr.pc # "loop"
     /\ call'.op = "skullRemove" /\ call'.meshes = 1 /\ sr'.pc = "returned"
     => call'.ret < 0 /\ call'.updates = 0 /\ av'.m_gaussStage = -1]_vars

\* C14: updateGeo never raises: in every state and for every method value
\* a call returns normally with a status.
C14_NeverRaises ==
  call.op = "updateGeo" => ~call.raised

\* C16: from one updateGeo call to the next the smoothing counter and the
\* uniformity counter never decrease and never exceed 18; the smoothing
\* counter changes only in a call made in PrepareGauss, the uniformity
\* counter only in a call made in PrepareUniformity, each by exactly 1.
C16_Counters ==
  [][call'.op = "updateGeo"
     => /\ av'.m_gaussStage >= av.m_gaussStage
        /\ av'.m_gaussStage <= ACT_VOL_NUM_SMOOTH_STAGES
        /\ av'.m_uniformityStage >= av.m_uniformityStage
        /\ av'.m_uniformityStage <= ACT_VOL_NUM_SMOOTH_STAGES
        /\ av'.m_gaussStage # av.m_gaussStage
             => av.m_state = AV_STATE_PREPARE_GAUSS
                /\ av'.m_gaussStage = av.m_gaussStage + 1
        /\ av'.m_uniformityStage # av.m_uniformityStage
             => av.m_state = AV_STATE_PREPARE_UNIFORMITY
                /\ av'.m_uniformityStage = av.m_uniformityStage + 1]_vars

\* C20: an updateGeo call made in the state UpdateGeo, with any method
\* value, runs exactly one relaxation routine, the one its method bits
\* select, and then increments m_geoStage by 1.
C20_DispatchOne ==
  [][av.m_state = AV_STATE_UPDATE_GEO /\ call'.op = "updateGeo"
     => /\ \A m \in call'.methods : Dispatch(m) # "none"
        /\ "relax" \in call'.work
        /\ av'.m_geoStage = av.m_geoStage + 1]_vars

\* C15: applyPartGaussSmooth with a zero or negative radius or sigma builds
\* no kernel and stores no NaN in m_imageGauss.
C15_InvalidParameterRejected ==
  call.op = "applyPartGaussSmooth" /\ (call.rad <= 0 \/ call.sigma10 <= 0)
  => /\ av.m_gaussMatrix.isNull
     /\ \A i \in DOMAIN av.m_imageGauss.data : ~IsNaN(av.m_imageGauss.data[i])

\* C17: the Z ranges passed to applyPartGaussSmooth in a run are, in the
\* order of the calls, [floor(zDim * s / 18), floor(zDim * (s + 1) / 18)) for
\* s = 0, 1, ...: each starts where the one before ended, the first starts at
\* 0, and once the instance has left PrepareGauss there are exactly 18 of
\* them and the last ends at zDim.
C17_BandsPartition ==
  call.op = "updateGeo"
  => /\ Len(call.bands) <= ACT_VOL_NUM_SMOOTH_STAGES
     /\ \A s \in 1..Len(call.bands) :
          /\ call.bands[s][1] = (av.m_zDim * (s - 1)) \div 18
          /\ call.bands[s][2] = (av.m_zDim * s) \div 18
          /\ call.bands[s][1] <= call.bands[s][2]
          /\ s > 1 => call.bands[s][1] = call.bands[s - 1][2]
     /\ call.bands[1][1] = 0
     /\ IF av.m_state = AV_STATE_PREPARE_GAUSS
        THEN Len(call.bands) = av.m_gaussStage
        ELSE /\ Len(call.bands) = 18
             /\ call.bands[18][2] = av.m_zDim

\* the smoothing of a 2 x 2 x 37 volume is complete: its bands are two or
\* three slices thick
C17_Witness ==
  /\ call.op = "updateGeo" /\ av.m_state = AV_STATE_PREPARE_UNIFORMITY
  /\ av.m_zDim = 37 /\ Len(call.bands) = 18
  /\ call.bands[1] = <<0, 2>> /\ call.bands[9] = <<16, 18>> /\ call.bands[18] = <<34, 37>>

\* C18: exactly one of the 18 smoothing calls of a run, the first, builds
\* the kernel and copies the source into m_imageGauss.
C18_KernelBuiltOnce ==
  call.op = "updateGeo" /\ Len(call.bands) = ACT_VOL_NUM_SMOOTH_STAGES
  => call.builds = 1

\* C19: after the first histogram pass m_indexMinColor is the smallest bin i
\* in 1..63 whose count is strictly smaller than the counts of both bins
\* i - 1 and i + 1, and 0 when there is no such bin.
C19_FirstCountMinimum ==
  call.op = "minColor"
  => LET isMin(i) == /\ av.m_histogram[i + 1] < av.m_histogram[i]
                     /\ av.m_histogram[i + 1] < av.m_histogram[i + 2]
     IN /\ av.m_indexMinColor \in 0..63
        /\ av.m_indexMinColor # 0 => isMin(av.m_indexMinColor)
        /\ \A i \in 1..63 : isMin(i) => av.m_indexMinColor # 0 /\ av.m_indexMinColor <= i

\* C19, amended: m_indexMinColor is the smallest bin i in 1..63 whose
\* probability as stored in single precision is strictly smaller than the
\* stored probabilities of both bins i - 1 and i + 1, and 0 when there is
\* no such bin.
C19_FirstStoredMinimum ==
  call.op = "minColor"
  => LET n == av.m_xDim * av.m_yDim * av.m_zDim
         stored(i) == F32Quot(av.m_histogram[i + 1], n)
         isMin(i) == F32Less(stored(i), stored(i - 1)) /\ F32Less(stored(i), stored(i + 1))
     IN /\ av.m_indexMinColor \in 0..63
        /\ av.m_indexMinColor # 0 => isMin(av.m_indexMinColor)
        /\ \A i \in 1..63 : isMin(i) => av.m_indexMinColor # 0 /\ av.m_indexMinColor <= i

\* the bins 29..33 hold 3, 1, 2, 1, 4 voxels: of the two local minima, 30
\* and 32, the search returns the first
C19_Witness ==
  /\ call.op = "minColor" /\ av.m_indexMinColor = 30
  /\ av.m_histogram[30] = 3 /\ av.m_histogram[31] = 1 /\ av.m_histogram[32] = 2
  /\ av.m_histogram[33] = 1 /\ av.m_histogram[34] = 4

\* C21: the classifier runs in one call of a run only, the call of the
\* PrepareUniformity block that takes m_uniformityStage to 18, after the 18
\* smoothing bands; that call releases m_imageSrc and m_imageGrad, sets
\* m_geoStage to 0 (the UpdateGeo block of the same call then counts it to
\* 1 unless it throws) and m_state to UpdateGeo; no call made in UpdateGeo
\* or Finished runs the classifier, and UpdateGeo is entered in no other way.
C21_ClassifierOnce ==
  [][/\ call'.op = "updateGeo" /\ sr'.pc = sr.pc /\ "classify" \in call'.work
          => /\ av.m_state = AV_STATE_PREPARE_UNIFORMITY
             /\ av.m_gaussStage = ACT_VOL_NUM_SMOOTH_STAGES
             /\ av.m_uniformityStage = ACT_VOL_NUM_SMOOTH_STAGES - 1
             /\ av.m_indexMinColor = -1
             /\ ~av.m_imageSrc.isNull /\ ~av.m_imageGrad.isNull
             /\ av'.m_uniformityStage = ACT_VOL_NUM_SMOOTH_STAGES
             /\ av'.m_imageSrc.isNull /\ av'.m_imageGrad.isNull
             /\ av'.m_geoStage = (IF call'.raised THEN 0 ELSE 1)
             /\ av'.m_state = AV_STATE_UPDATE_GEO
             /\ av'.m_indexMinColor \in 0..(MAGIC_PART_HIST - 1)
             /\ call'.passes # NoPasses
     /\ call'.op = "updateGeo" /\ sr'.pc = sr.pc
        /\ av.m_state \in {AV_STATE_UPDATE_GEO, AV_STATE_FINISHED}
          => /\ "classify" \notin call'.work
             /\ call'.passes = NoPasses
             /\ av'.m_histogram = av.m_histogram
             /\ av'.m_colorProbability = av.m_colorProbability
             /\ av'.m_colorKoefs = av.m_colorKoefs
             /\ av'.m_indexMinColor = av.m_indexMinColor
     /\ call'.op = "updateGeo" /\ sr'.pc = sr.pc
        /\ av.m_state # AV_STATE_UPDATE_GEO /\ av'.m_state = AV_STATE_UPDATE_GEO
          => "classify" \in call'.work
    ]_vars

\* the 35th updateGeo call of a client on a 5 x 5 x 5 volume has just run
\* the classifier
C21_Witness ==
  /\ sr.pc = "idle" /\ call.op = "updateGeo" /\ "classify" \in call.work
  /\ av.m_xDim = 5 /\ av.m_state = AV_STATE_UPDATE_GEO
  /\ av.m_uniformityStage = ACT_VOL_NUM_SMOOTH_STAGES /\ av.m_imageSrc.isNull

\* C22: with method = AV_METHOD_ALL no updateGeo call takes m_state to
\* Finished; a call made in UpdateGeo returns 1 and changes m_geoStage only,
\* which it increments.
C22_NeverFinished ==
  [][call'.op = "updateGeo" /\ sr'.pc = sr.pc /\ call'.methods = {AV_METHOD_ALL}
       => /\ av'.m_state # AV_STATE_FINISHED
          /\ av.m_state = AV_STATE_UPDATE_GEO
               => /\ av' = [av EXCEPT !.m_geoStage = @ + 1]
                  /\ geo' = geo
                  /\ call'.ret = 1 /\ ~call'.raised
                  /\ call'.work = {"relax"}
    ]_vars

\* a call with AV_METHOD_ALL made in UpdateGeo ran the relaxation routine
\* and left the state UpdateGeo, the counter at 2
C22_Witness ==
  /\ call.op = "updateGeo" /\ call.methods = {AV_METHOD_ALL} /\ call.work = {"relax"}
  /\ av.m_state = AV_STATE_UPDATE_GEO /\ av.m_geoStage = 2

\* C23: an updateGeo call made in PrepareUniformity, UpdateGeo or Finished
\* leaves every element of m_imageGauss as it was, and no updateGeo call
\* changes an element of m_pixelsSrc.
C23_BuffersKept ==
  [][call'.op = "updateGeo" /\ sr'.pc = sr.pc
       => /\ av'.m_pixelsSrc = av.m_pixelsSrc
          /\ av.m_state \in {AV_STATE_PREPARE_UNIFORMITY, AV_STATE_UPDATE_GEO,
                             AV_STATE_FINISHED}
               => av'.m_imageGauss = av.m_imageGauss
    ]_vars

\* the classifier has run on a 5 x 5 x 5 volume whose centre voxel was
\* replaced by its convolved value, and the smoothed image is still there
C23_Witness ==
  /\ call.op = "updateGeo" /\ "classify" \in call.work /\ av.m_xDim = 5
  /\ ~av.m_imageGauss.isNull
  /\ av.m_imageGauss.data[63] # FromInt(av.m_pixelsSrc.data[63])

\* C24: after classification, with indBlackL and indBlackR the bounds found
\* on the smoothed band probabilities and moved outward by 2,
\* m_colorProbability[i] is 0 for i <= indBlackL, 1 for i >= indBlackR,
\* never decreases with i and lies in [0, 1].
C24_ProbabilityCurve ==
  call.passes # NoPasses
  => LET b == BlackBounds(smoothArray(Probabilities(av.m_histogram, call.passes[2].sampled),
                                      AV_NUM_COLORS, HIST_GAUSS_RAD, HIST_GAUSS_SIGMA10))
         p(i) == av.m_colorProbability[i + 1]
     IN /\ b.indBlackL < b.indBlackR
        /\ \A i \in 0..(AV_NUM_COLORS - 1) :
             /\ p(i).den > 0 /\ 0 <= p(i).num /\ p(i).num <= p(i).den
             /\ i <= b.indBlackL => p(i).num = 0
             /\ i >= b.indBlackR => p(i).num = p(i).den
             /\ i > 0 => ~Less(p(i), p(i - 1))

\* the classifier has run on a volume whose band histogram has its barrier
\* below bin 128: the curve is 0 at bin 0, 1 at bin 255 and strictly
\* between somewhere
C24_Witness ==
  /\ call.op = "updateGeo" /\ "classify" \in call.work
  /\ av.m_colorProbability[1].num = 0
  /\ av.m_colorProbability[AV_NUM_COLORS].num = av.m_colorProbability[AV_NUM_COLORS].den
  /\ \E i \in 1..NUM_COLS_HALF :
       /\ 0 < av.m_colorProbability[i].num
       /\ av.m_colorProbability[i].num < av.m_colorProbability[i].den

C26_ReadsInRange ==
  call.passes # NoPasses
  => /\ \A r \in ScanReads(av) :
          /\ r.off % UNIT = 0 /\ r.off >= 0
          /\ r.off < av.m_xDim * av.m_yDim * av.m_zDim * UNIT
          /\ r.x % UNIT = 0 /\ r.x >= 0 /\ r.x < av.m_xDim * UNIT
     /\ \A k \in DOMAIN FullBins(av) : ValidBin(FullBins(av)[k])
     /\ \A k \in DOMAIN BandBins(av) : ValidBin(BandBins(av)[k])

C28_CopyBeforeConvolution ==
  [][call'.op = "updateGeo" /\ Len(call'.bands) = Len(call.bands) + 1
     /\ call'.bands[Len(call'.bands)][1] = 0
       => /\ call'.builds = call.builds + 1
          /\ \A i \in DOMAIN call.writes : call.writes[i] = 0
          /\ \A s \in 1..Len(call.bands) : call.bands[s] = <<0, 0>>
          /\ av.m_state = AV_STATE_PREPARE_GAUSS
               => av.m_imageGauss.data = [i \in DOMAIN av.m_imageGauss.data |->
                                            FromInt(av.m_pixelsSrc.data[i])]
    ]_vars

\* the smoothing of a 5 x 5 x 5 volume copied the source four times, in the
\* stages 0..3 whose zStart is 0, and then convolved the centre voxel once
C28_Witness ==
  /\ call.op = "updateGeo" /\ av.m_zDim = 5 /\ av.m_xDim = 5
  /\ Len(call.bands) = ACT_VOL_NUM_SMOOTH_STAGES /\ call.builds = 4
  /\ call.bands[3] = <<0, 0>> /\ call.bands[4] = <<0, 1>> /\ call.writes[63] = 1

====
